---- MODULE Spec2Model ----
(***************************************************************************)
(* Metaobject-Paginator: the authenticated retrieval pipeline.             *)
(*                                                                         *)
(* The repository holds several drafts of the same server.  Each draft is  *)
(* modelled as the source has it; the variable `draft` (fetcher) and       *)
(* `vdraft` (signature verifier) say which draft a behaviour runs.         *)
(*   serverA  src/server.js 1-147      (single tenant, sorts)              *)
(*   serverB  src/server.js 148-467    (multi tenant); src/unnamed/part_000*)
(*            has the same fetchAllCOAs and verifyAppProxy text            *)
(*   part000  src/unnamed/part_000     (its /auth/callback and data routes)*)
(*   part001  src/unnamed/part_001     (one page per call, retry loop)     *)
(*   part002  src/unnamed/part_002     (date-only filter, sorts)           *)
(*   backend  src/backend-coas.js      (first draft)                       *)
(***************************************************************************)
EXTENDS Integers, Sequences, FiniteSets, TLC

VARIABLES
  draft,      \* which fetchAllCOAs draft serves the inbound data request
  nPages,     \* the simulated remote API: the number N of pages it holds
  pages,      \* the pages the remote has served so far (page i = pages[i])
  pc,         \* position of the data-request handler
  first,      \* page size sent with each page request
  after,      \* cursor of the next page request (NoCursor = null)
  attempt,    \* part001: retry counter of fetchAllCOAs
  allCOAs,    \* records accumulated by the walk
  requests,   \* page requests issued so far: [first, after, outcome]
  faults,     \* the remote's plan for the page being requested: how many
              \* attempts it fails before it answers
  err,        \* the error the handler caught ("" when none)
  response,   \* the HTTP response of the data request
  apiSecret,  \* SHOPIFY_API_SECRET of the environment (Undefined when unset)
  vdraft,     \* which verifier draft guards the signed request
  vreq,       \* the inbound signed request under verification
  vpc,        \* position of the verification middleware / handler
  vstatus,    \* HTTP status answered to the signed request (0 = none yet)
  rawNode,    \* Record Normalizer alone: the raw node it is given
  normalized, \* Record Normalizer alone: what it made of rawNode
  kv,         \* the key-value store behind `kv`: key -> value (Null = no entry)
  accessToken,\* SHOPIFY_ACCESS_TOKEN of the environment (Undefined when unset)
  handled,    \* the request the server handled last: what came in, what the
              \* handler called, what it answered, and the store as it found it
  cmp,        \* the signature comparison under way: the two texts, the bytes
              \* examined so far, and the verdict
  sorting,    \* the final sort alone: the array it is given and what
              \* Array.prototype.sort makes of it, once and once more
  walks       \* concurrent data requests: the locals of each call of
              \* fetchAllCOAs and what its handler answered

fetchVars  == <<draft, nPages, pages, pc, first, after, attempt, allCOAs,
                requests, faults, err, response>>
verifyVars == <<apiSecret, vdraft, vreq, vpc, vstatus>>
normVars   == <<rawNode, normalized>>
\* what the fetcher's steps leave alone, and what the verifier's steps leave alone
storeVars  == <<kv, accessToken, handled>>
nonFetchVars  == <<apiSecret, vdraft, vreq, vpc, vstatus, rawNode, normalized,
                   kv, accessToken, handled, cmp, sorting, walks>>
nonVerifyVars == <<draft, nPages, pages, pc, first, after, attempt, allCOAs,
                   requests, faults, err, response, rawNode, normalized,
                   kv, accessToken, handled, cmp, sorting, walks>>
vars       == <<draft, nPages, pages, pc, first, after, attempt, allCOAs,
                requests, faults, err, response, apiSecret, vdraft, vreq,
                vpc, vstatus, rawNode, normalized, kv, accessToken, handled, cmp,
                sorting, walks>>

----------------------------------------------------------------------------
(* Bounds of the model *)

\* the remote API holds between 1 and MaxPages pages
MaxPages == 3

\* the remote fails at most MaxFaults attempts of a page before it answers
MaxFaults == 3

\* a signed proxy request carries at most MaxParams query parameters
MaxParams == 2

\* nodes per full page; stands for the `first: 50` of the query, scaled down
PageSize == 2

\* the page size the query asks for
First == 50

\* part001: cap of the retry loop
maxAttempts == 3

----------------------------------------------------------------------------
(* JavaScript values *)

Undefined == "<undefined>"
Null      == "<null>"
NoCursor  == 0

\* JS truthiness of a string-or-missing value: undefined, null and "" are falsy
Truthy(v) == v # Undefined /\ v # Null /\ v # ""

\* `x?.value` on a field that is null (absent on the metaobject) is undefined
FieldValue(f) == IF f = Null THEN Undefined ELSE f

----------------------------------------------------------------------------
(* Record Normalizer *)

FetchDrafts == {"serverA", "serverB", "part001", "part002", "backend"}

\* drafts whose fetchAllCOAs walks the cursor to the end (part001 fetches one page)
WalkDrafts == {"serverA", "serverB", "part002", "backend"}

\* the record built from one edge's node
Normalize(d, node) ==
  IF d = "backend"
    THEN [date          |-> FieldValue(node.date),
          product_name  |-> FieldValue(node.product_name),
          batch_number  |-> FieldValue(node.batch_number),
          pdf_link      |-> FieldValue(node.pdf_link),
          best_by_date  |-> FieldValue(node.best_by_date)]
    ELSE [id            |-> IF d = "part002" THEN Undefined ELSE node.id,
          date          |-> FieldValue(node.date),
          product       |-> FieldValue(node.product_name),
          batch_number  |-> FieldValue(node.batch_number),
          pdf_link      |-> FieldValue(node.pdf_link),
          best_by_date  |-> FieldValue(node.best_by_date)]

\* Keeps, were batch_number a required field too
KeepsNeedsBatch(d, coa) ==
  d = "backend" \/ (Truthy(coa.date) /\ Truthy(coa.product) /\ Truthy(coa.batch_number))

\* the required-field test that decides whether a record is pushed
Keeps(d, coa) ==
  CASE d \in {"serverA", "serverB", "part001"} -> Truthy(coa.date) /\ Truthy(coa.product)
    [] d = "part002"                            -> Truthy(coa.date)
    [] d = "backend"                            -> TRUE

RECURSIVE NormalizePage(_, _)
\* edges.forEach / map + filter: the kept records of one page, in page order
NormalizePage(d, edges) ==
  IF edges = <<>> THEN <<>>
  ELSE LET coa == Normalize(d, Head(edges))
       IN  (IF Keeps(d, coa) THEN <<coa>> ELSE <<>>) \o NormalizePage(d, Tail(edges))

----------------------------------------------------------------------------
(* The final sort of serverA and part002:                                  *)
(*   allCOAs.sort((a, b) => new Date(b.date) - new Date(a.date))           *)

\* new Date(s).getTime(): day number of an ISO date, NaN for anything else
ParseDate(s) ==
  CASE s = "2024-01-15" -> [nan |-> FALSE, t |-> 19737]
    [] s = "2024-03-01" -> [nan |-> FALSE, t |-> 19783]
    [] s = "2025-03-01" -> [nan |-> FALSE, t |-> 20148]
    [] OTHER            -> [nan |-> TRUE,  t |-> 0]

\* the comparator; a NaN difference is read by Array.prototype.sort as +0
CompareDates(a, b) ==
  LET da == ParseDate(a.date)
      db == ParseDate(b.date)
  IN  IF da.nan \/ db.nan THEN 0 ELSE db.t - da.t

Reverse(s) == [i \in 1..Len(s) |-> s[Len(s) + 1 - i]]

RECURSIVE RunEnd(_, _, _)
\* V8 CountAndMakeRun: end of the initial run of s that starts at index 1
RunEnd(s, i, descending) ==
  IF i > Len(s) THEN Len(s)
  ELSE LET order == CompareDates(s[i], s[i - 1])
       IN  IF (descending /\ order < 0) \/ (~descending /\ order >= 0)
             THEN RunEnd(s, i + 1, descending)
             ELSE i - 1

RECURSIVE BinarySearch(_, _, _, _)
\* V8 BinaryInsertionSort: the slot of pivot in the sorted prefix s[1..right-1]
BinarySearch(s, pivot, left, right) ==
  IF left >= right THEN left
  ELSE LET mid == left + ((right - left) \div 2)
       IN  IF CompareDates(pivot, s[mid]) < 0
             THEN BinarySearch(s, pivot, left, mid)
             ELSE BinarySearch(s, pivot, mid + 1, right)

RECURSIVE InsertFrom(_, _)
InsertFrom(s, i) ==
  IF i > Len(s) THEN s
  ELSE LET pivot == s[i]
           slot  == BinarySearch(s, pivot, 1, i)
           moved == SubSeq(s, 1, slot - 1) \o <<pivot>> \o SubSeq(s, slot, i - 1)
                      \o SubSeq(s, i + 1, Len(s))
       IN  InsertFrom(moved, i + 1)

\* SortByDateDesc, were the records whose date does not parse left out
SortParsableOnly(s) == SelectSeq(s, LAMBDA coa : ~ParseDate(coa.date).nan)

\* Array.prototype.sort of V8 on a short array (one run, binary insertion)
SortByDateDesc(s) ==
  IF Len(s) < 2 THEN s
  ELSE LET descending == CompareDates(s[2], s[1]) < 0
           e          == RunEnd(s, 3, descending)
           run        == IF descending
                           THEN Reverse(SubSeq(s, 1, e)) \o SubSeq(s, e + 1, Len(s))
                           ELSE s
       IN  InsertFrom(run, e + 1)

Sorts(d) == d \in {"serverA", "part002"}

----------------------------------------------------------------------------
(* The simulated remote API *)

\* the metaobjects the remote may hold at one position (the id is set by position)
NodeKinds ==
  { [date |-> "2024-03-01", product_name |-> "Tincture", batch_number |-> "B-17",
     pdf_link |-> "https://cdn.example/coa.pdf", best_by_date |-> "2025-03-01"],
    [date |-> "2024-01-15", product_name |-> "Gummies", batch_number |-> Null,
     pdf_link |-> Null, best_by_date |-> Null],
    [date |-> Null, product_name |-> "Tincture", batch_number |-> "B-18",
     pdf_link |-> Null, best_by_date |-> Null],
    [date |-> "2024-01-15", product_name |-> "", batch_number |-> Null,
     pdf_link |-> "https://cdn.example/coa.pdf", best_by_date |-> Null] }

NodeAt(idx, j, k) ==
  [id |-> (idx - 1) * PageSize + j, date |-> k.date, product_name |-> k.product_name,
   batch_number |-> k.batch_number, pdf_link |-> k.pdf_link,
   best_by_date |-> k.best_by_date]

\* the edges page idx may hold: every page but the last is full; only a
\* one-page listing may be empty
PageEdges(idx) ==
  LET lens == IF idx < nPages THEN {PageSize}
              ELSE IF nPages = 1 THEN 0..PageSize ELSE 1..PageSize
  IN  UNION { { [j \in 1..n |-> NodeAt(idx, j, ks[j])] : ks \in [1..n -> NodeKinds] }
              : n \in lens }

\* the edges the remote returns for a request with cursor c: page c+1, the same
\* on every request; nothing beyond the last page
Served(c) ==
  IF c + 1 \in DOMAIN pages THEN {pages[c + 1]}
  ELSE IF c + 1 <= nPages THEN PageEdges(c + 1)
  ELSE {<<>>}

PageInfo(c, edges) ==
  [hasNextPage |-> c + 1 < nPages,
   endCursor   |-> IF edges = <<>> THEN NoCursor ELSE c + 1]

\* cursor of the last edge of page c+1 (edges[edges.length - 1].cursor)
LastEdgeCursor(c, edges) == c + 1

\* how a page request can end: HTTP success with data, a non-2xx status,
\* a transport exception, HTTP success with an `errors` payload
Failures == {"http", "throw", "errors"}

Transient == {"http", "throw"}

\* no plan yet: the page has not been requested
NoPlan == [set |-> FALSE, planned |-> 0, left |-> 0]

\* the plans the remote may hold when an attempt fails: at the first attempt
\* of a page it settles how many attempts fail; later the plan is followed
FailingPlans(f) ==
  IF f.set
    THEN IF f.left > 0 THEN {[f EXCEPT !.left = f.left - 1]} ELSE {}
    ELSE {[set |-> TRUE, planned |-> k, left |-> k - 1] : k \in 1..MaxFaults}

\* the remote answers this attempt: no failure is planned, or none is left
Answers(f) == ~f.set \/ f.left = 0

----------------------------------------------------------------------------
(* fetchAllCOAs and the data-request handlers *)

\* `if (!response.ok)` is present
ChecksOk(d) == d \in {"serverA", "serverB", "part001"}

\* the access-token guard at the top of fetchAllCOAs
ChecksToken(d) == d \in {"serverA", "serverB", "part002"}

\* the request headers can be built: backend-coas.js reads ADMIN_API_SECRET,
\* which no scope declares, so evaluating the headers throws ReferenceError
BuildsRequest(d) == d # "backend"

\* the cursor of the next iteration, NoCursor to leave the loop
NextAfter(d, c, edges) ==
  IF d = "backend"
    THEN IF Len(edges) > 0 THEN LastEdgeCursor(c, edges) ELSE NoCursor
    ELSE IF PageInfo(c, edges).hasNextPage THEN PageInfo(c, edges).endCursor ELSE NoCursor

\* the error a failed page request raises inside fetchAllCOAs
ErrorOf(d, outcome) ==
  CASE outcome = "throw"  -> "Transport"
    [] outcome = "errors" -> "GraphQL"
    [] outcome = "http"   -> IF ChecksOk(d) THEN "Http" ELSE "BadBody"

NoResponse == [status |-> 0, shape |-> "none", coas |-> <<>>,
               pageInfo |-> [hasNextPage |-> FALSE, endCursor |-> NoCursor],
               error |-> ""]

\* res.json(coas) / res.json({coas, pageInfo})
OkResponse(d, coas, info) ==
  [status |-> 200, shape |-> IF d = "part001" THEN "object" ELSE "array",
   coas |-> coas,
   pageInfo |-> IF d = "part001" THEN info ELSE NoResponse.pageInfo,
   error |-> ""]

\* res.status(500).json({ error: ... })
ErrorResponse(e) ==
  [status |-> 500, shape |-> "error", coas |-> <<>>,
   pageInfo |-> NoResponse.pageInfo, error |-> e]

\* the values of `first` and `after` a caller of part001's routes may send
CallerFirst == {First, 10}

FetchInit ==
  /\ draft \in FetchDrafts
  /\ nPages \in 1..MaxPages
  /\ pages = <<>>
  /\ pc = "idle"
  /\ first = First
  /\ after = NoCursor
  /\ attempt = 0
  /\ allCOAs = <<>>
  /\ requests = <<>>
  /\ faults = NoPlan
  /\ err = ""
  /\ response = NoResponse

\* an inbound data request reaches the handler, which calls fetchAllCOAs; the
\* access token is unset
InboundNoToken ==
  /\ pc = "idle"
  /\ ChecksToken(draft)
  /\ pc' = "failed"
  /\ err' = "NoToken"
  /\ response' = ErrorResponse("NoToken")
  /\ UNCHANGED <<draft, nPages, pages, first, after, attempt, allCOAs, requests, faults>>
  /\ UNCHANGED nonFetchVars

\* an inbound data request reaches the handler, which calls fetchAllCOAs
Inbound ==
  /\ pc = "idle"
  /\ pc' = "fetch"
  /\ allCOAs' = <<>>
  /\ attempt' = 0
  /\ IF draft = "part001"
       THEN /\ first' \in CallerFirst
            /\ after' \in {NoCursor} \cup 1..nPages
       ELSE /\ first' = First
            /\ after' = NoCursor
  /\ UNCHANGED <<draft, nPages, pages, requests, faults, err, response>>
  /\ UNCHANGED nonFetchVars

\* backend: building the request throws before fetch is called
RequestBuildFails ==
  /\ pc = "fetch"
  /\ ~BuildsRequest(draft)
  /\ pc' = "failed"
  /\ err' = "ReferenceError"
  /\ response' = ErrorResponse("ReferenceError")
  /\ UNCHANGED <<draft, nPages, pages, first, after, attempt, allCOAs, requests, faults>>
  /\ UNCHANGED nonFetchVars

\* LoopEnds, were the loop left after its first iteration
LoopEndsAtOnce(next) == TRUE

\* `while (after)` / `while (cursor)`: the loop is left on a falsy cursor
LoopEnds(next) == next = NoCursor

\* one page request that succeeds: the rest of the loop body, and the return
\* of fetchAllCOAs and the handler's response when the loop ends
PageOk ==
  /\ pc = "fetch"
  /\ BuildsRequest(draft)
  /\ Answers(faults)
  /\ \E edges \in Served(after) :
       LET info  == PageInfo(after, edges)
           coas  == NormalizePage(draft, edges)
           acc   == allCOAs \o coas
           next  == NextAfter(draft, after, edges)
       IN  /\ requests' = Append(requests, [first |-> first, after |-> after, outcome |-> "ok"])
           /\ pages' = IF after + 1 <= nPages /\ after + 1 \notin DOMAIN pages
                         THEN pages @@ (after + 1 :> edges) ELSE pages
           /\ IF draft = "part001"
                THEN /\ allCOAs' = coas
                     /\ after' = after
                     /\ faults' = [faults EXCEPT !.set = TRUE]
                     /\ pc' = "done"
                     /\ response' = OkResponse(draft, coas, info)
                ELSE /\ allCOAs' = (IF LoopEnds(next) /\ Sorts(draft)
                                      THEN SortByDateDesc(acc) ELSE acc)
                     /\ after' = next
                     /\ faults' = IF LoopEnds(next)
                                    THEN [faults EXCEPT !.set = TRUE] ELSE NoPlan
                     /\ pc' = IF LoopEnds(next) THEN "done" ELSE "fetch"
                     /\ response' = IF LoopEnds(next)
                                      THEN OkResponse(draft, allCOAs', info)
                                      ELSE response
  /\ UNCHANGED <<draft, nPages, first, attempt, err>>
  /\ UNCHANGED nonFetchVars

\* Retries, were the cap tested with > instead of >=
RetriesOffByOne(d, e, n) == d = "part001" /\ n + 1 <= maxAttempts

\* what follows an error raised by a page request: part001's catch block
\* counts the attempt and retries below the cap; elsewhere the error leaves
\* fetchAllCOAs and the handler answers 500
Retries(d, e, n) == d = "part001" /\ n + 1 < maxAttempts

\* one page request that fails
PageFails ==
  /\ pc = "fetch"
  /\ BuildsRequest(draft)
  /\ \E outcome \in Failures, plan \in FailingPlans(faults) :
       LET e == ErrorOf(draft, outcome)
       IN  /\ faults' = plan
           /\ requests' = Append(requests, [first |-> first, after |-> after, outcome |-> outcome])
           /\ attempt' = IF draft = "part001" THEN attempt + 1 ELSE attempt
           /\ IF Retries(draft, e, attempt)
                THEN /\ pc' = "backoff"
                     /\ UNCHANGED <<err, response>>
                ELSE /\ pc' = "failed"
                     /\ err' = e
                     /\ response' = ErrorResponse(e)
  /\ UNCHANGED <<draft, nPages, pages, first, after, allCOAs>>
  /\ UNCHANGED nonFetchVars

\* part001: the delay of 1000 * attempt ms has passed, the loop runs again
Backoff ==
  /\ pc = "backoff"
  /\ pc' = "fetch"
  /\ UNCHANGED <<draft, nPages, pages, first, after, attempt, allCOAs, requests,
                 faults, err, response>>
  /\ UNCHANGED nonFetchVars

FetchNext ==
  \/ InboundNoToken
  \/ Inbound
  \/ RequestBuildFails
  \/ PageOk
  \/ PageFails
  \/ Backoff


----------------------------------------------------------------------------
(* Properties of the paginated fetcher *)

Terminal == pc \in {"done", "failed"}

Range(s) == {s[i] : i \in DOMAIN s}

Count(x, s) == Cardinality({i \in DOMAIN s : s[i] = x})

\* s and t hold the same records the same number of times
SameRecords(s, t) ==
  /\ Len(s) = Len(t)
  /\ \A x \in Range(s) \cup Range(t) : Count(x, s) = Count(x, t)

AllOk == \A i \in DOMAIN requests : requests[i].outcome = "ok"

RECURSIVE KeptFrom(_)
\* the kept records of pages i..N of the remote, in page order
KeptFrom(i) ==
  IF i > nPages THEN <<>>
  ELSE NormalizePage(draft, pages[i]) \o KeptFrom(i + 1)

NoCursorTwice ==
  \A i, j \in DOMAIN requests : i # j => requests[i].after # requests[j].after

\* the requests made for the page requested last: the longest suffix of
\* `requests` with one cursor
LastPageAttempts ==
  LET n == Len(requests)
      start == CHOOSE k \in 1..n :
                 /\ \A i \in k..n : requests[i].after = requests[n].after
                 /\ \A m \in 1..(k - 1) :
                      \E i \in m..n : requests[i].after # requests[n].after
  IN  SubSeq(requests, start, n)

\* the walk ended well: N requests, N cursors, the kept records of N pages
C1_Holds ==
  /\ pc = "done"
  /\ Len(requests) = nPages
  /\ NoCursorTwice
  /\ DOMAIN pages = 1..nPages
  /\ SameRecords(response.coas, KeptFrom(1))

\* C1: when every page request succeeds, one call of fetchAllCOAs issues
\* exactly N page requests for a remote of N pages, sends no cursor twice and
\* returns exactly the kept records of all N pages.
C1_ExactlyNPageRequests ==
  (Terminal /\ err # "NoToken" /\ AllOk) => C1_Holds

\* C1 as it holds of the drafts whose loop follows pageInfo.hasNextPage
C1_HasNextPageDrafts ==
  draft \in {"serverA", "serverB", "part002"} => C1_ExactlyNPageRequests


\* C2: when the remote fails a page transiently exactly twice and then
\* answers, fetchAllCOAs returns success after exactly 3 attempts for that
\* page, all three with the same cursor and page size.
C2_TwoTransientFailuresThenSuccess ==
  (/\ Terminal
   /\ faults.set /\ faults.planned = 2
   /\ \A i \in DOMAIN requests :
        requests[i].outcome # "ok" => requests[i].outcome \in Transient) =>
     /\ pc = "done"
     /\ response.status = 200
     /\ Len(LastPageAttempts) = 3
     /\ \A i \in 1..3 : /\ LastPageAttempts[i].after = LastPageAttempts[1].after
                        /\ LastPageAttempts[i].first = LastPageAttempts[1].first
     /\ LastPageAttempts[3].outcome = "ok"

\* C2 as it holds of the draft that has the retry loop
C2_RetryDraft ==
  draft = "part001" => C2_TwoTransientFailuresThenSuccess

ThreeTransientFrom(i) ==
  \A j \in i..(i + 2) : /\ requests[j].outcome \in Transient
                        /\ requests[j].after = requests[i].after

\* C3: after 3 consecutive transient failures of one page request the fetch
\* has failed: there is no 4th attempt, no request for a later page, and the
\* handler answers 500 without records.
C3_RetriesExhausted ==
  \A i \in 1..(Len(requests) - 2) :
    ThreeTransientFrom(i) =>
      /\ i + 2 = Len(requests)
      /\ pc = "failed"
      /\ err \in {"Http", "Transport"}
      /\ response.status = 500
      /\ response.coas = <<>>

C3_Witness ==
  /\ Len(requests) = 3
  /\ ThreeTransientFrom(1)
  /\ pc = "failed"

\* C4: a page response with an `errors` payload fails the fetch at once: the
\* request that got it is the last one made, it is not retried.
C4_StructuredErrorNotRetried ==
  \A i \in DOMAIN requests :
    requests[i].outcome = "errors" =>
      /\ i = Len(requests)
      /\ pc = "failed"
      /\ err = "GraphQL"

\* C4 as it holds of the drafts without a retry loop
C4_NoRetryDrafts ==
  draft # "part001" => C4_StructuredErrorNotRetried

\* every page requested was answered, and the last answer ends the listing
WalkComplete ==
  /\ requests # <<>>
  /\ requests[Len(requests)].outcome = "ok"
  /\ draft \in WalkDrafts =>
       /\ AllOk
       /\ Len(requests) \in DOMAIN pages
       /\ ~PageInfo(Len(requests) - 1, pages[Len(requests)]).hasNextPage

\* C5: all or nothing.  A failed fetch is answered without any record,
\* whatever was accumulated before the failure; records are sent only when
\* every page of the walk was answered; nothing is sent while the walk runs.
C5_AllOrNothing ==
  /\ pc = "failed" => /\ response.shape = "error"
                      /\ response.status = 500
                      /\ response.coas = <<>>
  /\ response.shape \in {"array", "object"} => pc = "done" /\ WalkComplete
  /\ ~Terminal => response = NoResponse

\* a later page fails after records of earlier pages were accumulated
C5_Witness ==
  /\ pc = "failed"
  /\ Len(requests) >= 2
  /\ allCOAs # <<>>
  /\ response.status = 500

HasRequired(coa) == Truthy(coa.date) /\ Truthy(coa.product)

\* C6: every record accumulated or returned has a non-empty date and a
\* non-empty product; a node lacking either is dropped and raises no error.
C6_RequiredFields ==
  /\ \A i \in DOMAIN allCOAs : HasRequired(allCOAs[i])
  /\ \A i \in DOMAIN response.coas : HasRequired(response.coas[i])

\* C6 as it holds of the drafts that test both fields
C6_BothFieldDrafts ==
  draft \in {"serverA", "serverB", "part001"} => C6_RequiredFields

----------------------------------------------------------------------------
(* Strings, as sequences of characters *)

RECURSIVE Concat(_)
\* the concatenation of a sequence of strings (Array.prototype.join(''))
Concat(ss) == IF ss = <<>> THEN <<>> ELSE Head(ss) \o Concat(Tail(ss))

RECURSIVE Join(_, _)
\* Array.prototype.join(sep)
Join(ss, sep) ==
  IF ss = <<>> THEN <<>>
  ELSE IF Len(ss) = 1 THEN ss[1]
  ELSE ss[1] \o sep \o Join(Tail(ss), sep)

\* UTF-16 code units of the characters the model uses
CharCode(c) ==
  CASE c = "%" -> 37 [] c = "&" -> 38 [] c = "," -> 44 [] c = "1" -> 49
    [] c = "2" -> 50 [] c = "3" -> 51 [] c = "=" -> 61 [] c = "C" -> 67
    [] c = "D" -> 68 [] c = "a" -> 97 [] c = "b" -> 98 [] c = "x" -> 120
    [] OTHER -> 0

RECURSIVE StrLess(_, _)
\* the default order of Array.prototype.sort on strings: by code units
StrLess(s, t) ==
  IF t = <<>> THEN FALSE
  ELSE IF s = <<>> THEN TRUE
  ELSE IF CharCode(Head(s)) # CharCode(Head(t)) THEN CharCode(Head(s)) < CharCode(Head(t))
  ELSE StrLess(Tail(s), Tail(t))

RECURSIVE SortStrings(_)
\* Object.keys(query).sort(): the keys in ascending order
SortStrings(S) ==
  IF S = {} THEN <<>>
  ELSE LET m == CHOOSE x \in S : \A y \in S \ {x} : StrLess(x, y)
       IN  <<m>> \o SortStrings(S \ {m})

\* percent-encoding of the application/x-www-form-urlencoded serializer
UrlEncodeChar(c) ==
  CASE c = "," -> <<"%", "2", "C">>
    [] c = "=" -> <<"%", "3", "D">>
    [] c = "&" -> <<"%", "2", "6">>
    [] OTHER   -> <<c>>

UrlEncode(str) == Concat([i \in 1..Len(str) |-> UrlEncodeChar(str[i])])

----------------------------------------------------------------------------
(* HMAC-SHA256 digests.  A digest is known by what it was computed from:    *)
(* two digests are equal exactly when encoding, key and message are equal. *)

Hmac(enc, key, msg) ==
  [enc |-> enc, key |-> key, msg |-> msg, len |-> IF enc = "hex" THEN 64 ELSE 44]

\* no signature on the request (the parameter or header is absent)
NoSig == [enc |-> "none", key |-> "", msg |-> <<>>, len |-> 0]

\* signature texts that are no digest at all, one of them as long as a hex digest
JunkSigs == { [enc |-> "junk", key |-> "", msg |-> <<>>, len |-> n] : n \in {7, 64} }

\* crypto.timingSafeEqual(Buffer.from(a), Buffer.from(b)): a RangeError when
\* the byte lengths differ, else whether the bytes are equal
TimingSafeEqual(a, b) ==
  IF a.len # b.len THEN "throws" ELSE IF a = b THEN "equal" ELSE "differs"

----------------------------------------------------------------------------
(* Signed requests *)

Secret == "shpss_secret"

ParamKeys == { <<"a">>, <<"a", "b">>, <<"b">> }

\* a parameter value as express parses it: a string, or an array of strings
\* when the name is repeated
ParamValues ==
  { [arr |-> FALSE, items |-> << <<"1">> >>],
    [arr |-> FALSE, items |-> << <<"1", ",", "2">> >>],
    [arr |-> TRUE,  items |-> << <<"1">>, <<"2">> >>] }

\* req.query without `signature`: parameters in the order the URL has them
Queries ==
  UNION { { q \in [1..n -> [key : ParamKeys, value : ParamValues]] :
              \A i, j \in 1..n : i # j => q[i].key # q[j].key }
          : n \in 0..MaxParams }

\* `${v}` / String(v) / v.join(','): the text of a parameter value
ValueText(v) == IF v.arr THEN Join(v.items, <<",">>) ELSE v.items[1]

ValueOf(q, k) == (CHOOSE i \in DOMAIN q : q[i].key = k)

\* sortedParams: keys sorted, each written key=value, joined without separator
ParamsToHash(q) ==
  LET keys == SortStrings({q[i].key : i \in DOMAIN q})
  IN  Concat([n \in 1..Len(keys) |->
                keys[n] \o <<"=">> \o ValueText(q[ValueOf(q, keys[n])].value)])

\* new URLSearchParams(query).toString(): insertion order, percent-encoded,
\* joined by '&'
UrlSearchParams(q) ==
  Join([i \in 1..Len(q) |->
          UrlEncode(q[i].key) \o <<"=">> \o UrlEncode(ValueText(q[i].value))],
       <<"&">>)

\* req.url.split('?')[1]: the query string as sent, a repeated name once per
\* value, the signature parameter (when sent) included.  "<sig>" stands for
\* the text of the request's own signature.
RawQueryString(q, sig) ==
  LET pairs == Concat([i \in 1..Len(q) |->
                 [j \in 1..Len(q[i].value.items) |->
                    UrlEncode(q[i].key) \o <<"=">> \o UrlEncode(q[i].value.items[j])]])
      all   == IF sig = NoSig THEN pairs
               ELSE pairs \o << <<"s", "i", "g", "n", "a", "t", "u", "r", "e", "=", "<sig>">> >>
  IN  Join(all, <<"&">>)

\* request bodies, as token sequences
Bodies ==
  { <<>>,
    <<"{", "\"shop\"", ":", "\"a\"", "}">>,
    <<"{", "\"shop\"", ":", " ", "\"a\"", "}">>,
    <<"{", "\"shop\"", ":">> }

IsSpace(t) == t = " "

\* express.json(): req.body, an object given as its members <<name, value>>.
\* Whitespace between tokens is skipped; an empty body gives {}; a body that
\* is no JSON document is refused (400).
ParseJson(raw) ==
  LET toks == SelectSeq(raw, LAMBDA t : ~IsSpace(t))
  IN  IF toks = <<>> \/ toks = <<"{", "}">>
        THEN [ok |-> TRUE, members |-> <<>>]
      ELSE IF Len(toks) = 5 /\ toks[1] = "{" /\ toks[3] = ":" /\ toks[5] = "}"
        THEN [ok |-> TRUE, members |-> << <<toks[2], toks[4]>> >>]
      ELSE [ok |-> FALSE, members |-> <<>>]

\* JSON.stringify(req.body): the compact text of the object
JsonStringify(members) ==
  <<"{">> \o Join([i \in 1..Len(members) |-> <<members[i][1], ":", members[i][2]>>], <<",">>)
    \o <<"}">>

\* q with character p of item j of parameter i replaced by "x"
Mutate(q, i, j, p) == [q EXCEPT ![i].value.items[j][p] = "x"]

\* the queries that differ from q in one character of one parameter value
MutatedQueries(q) ==
  UNION { UNION { { Mutate(q, i, j, p) : p \in DOMAIN q[i].value.items[j] }
                  : j \in DOMAIN q[i].value.items }
          : i \in DOMAIN q }

\* the signatures a proxy request with query q may carry: none, junk, or a
\* digest somebody computed, with the app's secret or another key, over q
\* or over a query one character away, in one of the ways the drafts sign
ProxySignatures(q, body) ==
  {NoSig} \cup JunkSigs
    \cup UNION { { Hmac("hex", Secret, ParamsToHash(q0)),
                   Hmac("hex", "other-key", ParamsToHash(q0)),
                   Hmac("base64", Secret, ParamsToHash(q0)),
                   Hmac("hex", Secret, UrlSearchParams(q0)) }
                 : q0 \in {q} \cup MutatedQueries(q) }
    \cup { Hmac("base64", Secret, JsonStringify(ParseJson(body).members)) }

ProxyRequests ==
  UNION { { [kind |-> "proxy", method |-> m, query |-> q, signature |-> sig,
             header |-> NoSig, body |-> <<>>]
            : m \in {"GET", "POST"}, sig \in ProxySignatures(q, <<>>) }
          : q \in Queries }

\* the values the X-Shopify-Hmac-Sha256 header of a webhook may carry
WebhookHeaders(body) ==
  {NoSig} \cup { j \in JunkSigs : j.len = 7 }
    \cup { Hmac("base64", k, b) : k \in {Secret, "other-key"},
                                  b \in {body, JsonStringify(ParseJson(body).members)} }

WebhookRequests ==
  UNION { { [kind |-> "webhook", method |-> "POST", query |-> <<>>, signature |-> NoSig,
             header |-> h, body |-> b] : h \in WebhookHeaders(b) }
          : b \in Bodies }

NoRequest == [kind |-> "none", method |-> "", query |-> <<>>, signature |-> NoSig,
              header |-> NoSig, body |-> <<>>]

----------------------------------------------------------------------------
(* The verification middlewares.  Each gives the way the middleware ends:  *)
(* "next" (the handler runs), 401, 400, or 500 (an exception reached the   *)
(* framework's error handler, or the middleware's own catch block).        *)

\* how a middleware ends: it calls next(), or answers with a status
Pass == [next |-> TRUE, status |-> 0]

Reject(status) == [next |-> FALSE, status |-> status]

\* crypto.createHmac('sha256', key) throws a TypeError when key is undefined
HmacThrows(key) == key = Undefined

\* src/server.js 320-361 and src/unnamed/part_000 117-151
verifyAppProxy(req, secret) ==
  LET signature == req.signature
      sortedParams == ParamsToHash(req.query)
      calculatedSignature == Hmac("hex", secret, sortedParams)
      isValid == TimingSafeEqual(calculatedSignature, signature)
  IN  IF signature = NoSig THEN Reject(401)
      ELSE IF HmacThrows(secret) THEN Reject(500)
      ELSE IF isValid = "throws" THEN Reject(500)
      ELSE IF isValid = "equal" THEN Pass
      ELSE Reject(401)

\* src/unnamed/part_001 145-179
verifyAppProxyPart001(req, secret) ==
  LET signature == IF req.header # NoSig THEN req.header ELSE req.signature
      queryString == RawQueryString(req.query, req.signature)
      body == JsonStringify(ParseJson(req.body).members)
      calculatedHmac ==
        IF req.method = "POST" THEN Hmac("base64", secret, body)
        ELSE IF queryString # <<>> THEN Hmac("base64", secret, queryString)
        ELSE NoSig
  IN  IF signature = NoSig THEN Reject(401)
      ELSE IF (req.method = "POST" \/ queryString # <<>>) /\ HmacThrows(secret) THEN Reject(500)
      ELSE IF calculatedHmac = NoSig \/ calculatedHmac # signature THEN Reject(401)
      ELSE Pass

\* src/unnamed/part_002 135-149
verifyProxy(req, secret) ==
  LET signature == req.signature
      queryString == UrlSearchParams(req.query)
      calculatedSignature == Hmac("hex", secret, queryString)
  IN  IF signature = NoSig THEN Reject(401)
      ELSE IF HmacThrows(secret) THEN Reject(500)
      ELSE IF calculatedSignature # signature THEN Reject(401)
      ELSE Pass

\* src/unnamed/part_001 250-266, behind express.json()
verifyWebhook(req, secret) ==
  LET hmac == req.header
      parsed == ParseJson(req.body)
      body == JsonStringify(parsed.members)
      calculatedHmac == Hmac("base64", secret, body)
  IN  IF ~parsed.ok THEN Reject(400)
      ELSE IF hmac = NoSig THEN Reject(401)
      ELSE IF HmacThrows(secret) THEN Reject(500)
      ELSE IF calculatedHmac # hmac THEN Reject(401)
      ELSE Pass

VerifyDrafts == {"serverB", "part001", "part002", "webhook"}

\* the drafts that refuse to start when a required environment variable is
\* missing (part_001 44-50); the others start without a signing secret
ValidatesEnv(d) == d \in {"part001", "webhook"}

VerifyInit ==
  /\ apiSecret \in {Secret, Undefined}
  /\ vdraft \in VerifyDrafts
  /\ ValidatesEnv(vdraft) => apiSecret = Secret
  /\ vreq = NoRequest
  /\ vpc = "idle"
  /\ vstatus = 0

\* a request arrives on the signed proxy route
ReceiveProxy ==
  /\ vpc = "idle"
  /\ vdraft # "webhook"
  /\ vreq' \in ProxyRequests
  /\ vpc' = "verify"
  /\ UNCHANGED <<apiSecret, vdraft, vstatus>>
  /\ UNCHANGED nonVerifyVars

\* a request arrives on a webhook route
ReceiveWebhook ==
  /\ vpc = "idle"
  /\ vdraft = "webhook"
  /\ vreq' \in WebhookRequests
  /\ vpc' = "verify"
  /\ UNCHANGED <<apiSecret, vdraft, vstatus>>
  /\ UNCHANGED nonVerifyVars

\* the middleware of the route runs: it calls next() or answers
Middleware(d, req, secret) ==
  CASE d = "serverB" -> verifyAppProxy(req, secret)
    [] d = "part001" -> verifyAppProxyPart001(req, secret)
    [] d = "part002" -> verifyProxy(req, secret)
    [] d = "webhook" -> verifyWebhook(req, secret)

Verify ==
  /\ vpc = "verify"
  /\ LET out == Middleware(vdraft, vreq, apiSecret)
     IN  IF out.next
           THEN vpc' = "next" /\ vstatus' = 0
           ELSE vpc' = "rejected" /\ vstatus' = out.status
  /\ UNCHANGED <<apiSecret, vdraft, vreq>>
  /\ UNCHANGED nonVerifyVars

\* the data-request handler behind the proxy middleware runs and answers
\* with the outcome of its fetch
ProxyHandler ==
  /\ vpc = "next"
  /\ vdraft # "webhook"
  /\ vpc' = "handled"
  /\ vstatus' \in {200, 500}
  /\ UNCHANGED <<apiSecret, vdraft, vreq>>
  /\ UNCHANGED nonVerifyVars

\* the webhook handler runs: it logs and acknowledges
WebhookHandler ==
  /\ vpc = "next"
  /\ vdraft = "webhook"
  /\ vpc' = "handled"
  /\ vstatus' = 200
  /\ UNCHANGED <<apiSecret, vdraft, vreq>>
  /\ UNCHANGED nonVerifyVars

VerifyNext ==
  \/ ReceiveProxy
  \/ ReceiveWebhook
  \/ Verify
  \/ ProxyHandler
  \/ WebhookHandler

----------------------------------------------------------------------------
(* The Record Normalizer on its own: one raw node in, at most one record out *)

\* the raw nodes the remote can return: every field present (possibly the
\* empty string) or absent
RawNodes ==
  [id            : {1, 2},
   date          : {Null, "", "2024-01-15", "not-a-date"},
   product_name  : {Null, "", "Tincture"},
   batch_number  : {Null, "", "B-17"},
   pdf_link      : {Null, "https://cdn.example/coa.pdf"},
   best_by_date  : {Null, "2025-03-01"}]

NotNormalized == [done |-> FALSE, coas |-> <<>>]

NoNode == [id |-> 0, date |-> Null, product_name |-> Null, batch_number |-> Null,
           pdf_link |-> Null, best_by_date |-> Null]

NormalizerIdle ==
  /\ rawNode = NoNode
  /\ normalized = NotNormalized

\* the loop body over a page that holds the one node
NormalizeNode ==
  /\ ~normalized.done
  /\ normalized' = [done |-> TRUE, coas |-> NormalizePage(draft, <<rawNode>>)]
  /\ UNCHANGED <<rawNode, apiSecret, vdraft, vreq, vpc, vstatus>>
  /\ UNCHANGED fetchVars
  /\ UNCHANGED <<kv, accessToken, handled, cmp, sorting, walks>>

NormalizerNext == NormalizeNode

----------------------------------------------------------------------------
(* The Credential Store, OAuth Exchange and the routes around them.        *)
(* serverB (src/server.js 148-467) keeps one credential per shop in `kv`;  *)
(* part000 and part001 show the credential to the installer and keep       *)
(* nothing.                                                                *)

\* the server knows at most MaxShops shop domains
MaxShops == 2

ShopDomain(i) == [kind |-> "shop", n |-> i]

Shops == {ShopDomain(i) : i \in 1..MaxShops}

\* no `shop` parameter on the request
NoShop == [kind |-> "none", n |-> 0]

\* the values Date.now() takes
Clock == {1}

\* healthTestKey, were the probe written under a shop's key
healthTestKeyIsShop(now) == ShopDomain(1)

\* `health-${Date.now()}`: the throwaway key of the store probe
healthTestKey(now) == [kind |-> "health", n |-> now]

StoreKeys == Shops \cup {healthTestKey(now) : now \in Clock}

\* access tokens the token endpoint may issue
Tokens == {"tok123", "tok456"}

\* the value of SHOPIFY_ACCESS_TOKEN when the environment sets it
EnvToken == "shpat_env"

EmptyStore == [k \in StoreKeys |-> Null]

\* the error the store client raises when the store cannot be reached
StoreError == "fetch failed"

\* KvGet, were a store that cannot be reached read as an absent key
KvGetSwallows(store, up, key) ==
  [threw |-> FALSE, value |-> IF up THEN store[key] ELSE Null, message |-> ""]

\* await kv.get(key): the value, null for an absent key, or the client's error
KvGet(store, up, key) ==
  IF up THEN [threw |-> FALSE, value |-> store[key], message |-> ""]
        ELSE [threw |-> TRUE, value |-> Null, message |-> StoreError]

\* KvSet, were a key that holds a value left as it is
KvSetIfAbsent(store, up, key, value) ==
  IF up /\ store[key] = Null
    THEN [threw |-> FALSE, store |-> [store EXCEPT ![key] = value]]
    ELSE [threw |-> ~up, store |-> store]

\* await kv.set(key, value)
KvSet(store, up, key, value) ==
  IF up THEN [threw |-> FALSE, store |-> [store EXCEPT ![key] = value]]
        ELSE [threw |-> TRUE, store |-> store]

\* await kv.del(key)
KvDel(store, up, key) ==
  IF up THEN [threw |-> FALSE, store |-> [store EXCEPT ![key] = Null]]
        ELSE [threw |-> TRUE, store |-> store]

Thrown(m) == [threw |-> TRUE, value |-> Undefined, message |-> m]

Returned(v) == [threw |-> FALSE, value |-> v, message |-> ""]

NoLookup == [threw |-> FALSE, value |-> Undefined, message |-> ""]

\* `No token for ${shop}; run OAuth first`
NoTokenMessage == "No token for shop; run OAuth first"

\* src/server.js 158-163
getTokenForShop(store, up, shop) ==
  IF shop = NoShop THEN Thrown("No shop provided")
  ELSE LET token == KvGet(store, up, shop)
       IN  IF token.threw THEN Thrown(token.message)
           ELSE IF ~Truthy(token.value) THEN Thrown(NoTokenMessage)
           ELSE Returned(token.value)

\* how the token endpoint may answer: the fetch is rejected, or it answers
\* with a status (ok = 2xx) and a body that is a JSON object or not, with or
\* without an access_token field
NoAnswer == [threw |-> FALSE, ok |-> FALSE, json |-> FALSE, access_token |-> Undefined]

TokenAnswers ==
  {[threw |-> TRUE, ok |-> FALSE, json |-> FALSE, access_token |-> Undefined]}
    \cup {[threw |-> FALSE, ok |-> o, json |-> FALSE, access_token |-> Undefined]
            : o \in BOOLEAN}
    \cup {[threw |-> FALSE, ok |-> o, json |-> TRUE, access_token |-> t]
            : o \in BOOLEAN, t \in Tokens \cup {Undefined}}

\* what a response body is put together from, besides fixed text
BodyParts == {"shop", "errorMessage", "remoteMessage", "remoteBody", "credential",
              "clientSecret", "stack"}

NoCalls == <<>>

\* an outbound call or store operation of a handler
Call(op, key, token) == [op |-> op, key |-> key, token |-> token]

NoHandled ==
  [route |-> "none", shop |-> NoShop, code |-> FALSE, answer |-> NoAnswer,
   ups |-> <<>>, status |-> 0, parts |-> {}, error |-> "", calls |-> NoCalls,
   before |-> EmptyStore, lookup |-> NoLookup, kvWorking |-> FALSE]

\* TokenPosts, were the POST sent a second time
TokenPostsTwice(shop) ==
  <<Call("oauth/access_token", shop, Undefined), Call("oauth/access_token", shop, Undefined)>>

\* the POSTs to https://${shop}/admin/oauth/access_token of one callback: the
\* one `await fetch` of the try block, outside any loop
TokenPosts(shop) == <<Call("oauth/access_token", shop, Undefined)>>

\* the catch block and the else branch put the error's message or the
\* remote's body in the response (part_001 answers with fixed text)
Detailed(d) == d \in {"serverB", "part000"}

\* what /auth/callback does with the token endpoint's answer:
\* [status, parts, store, calls]
Exchange(d, secret, store, shop, answer, up) ==
  LET posts == TokenPosts(shop)
      out(status, parts, st, calls) ==
        [status |-> status, parts |-> parts, store |-> st, calls |-> calls]
  IN  IF d = "part000" /\ ~Truthy(secret) THEN
        \* throw new Error('Missing SHOPIFY_API_KEY or SHOPIFY_API_SECRET ...')
        out(500, {"errorMessage"}, store, NoCalls)
      ELSE IF answer.threw THEN
        out(500, IF Detailed(d) THEN {"errorMessage"} ELSE {}, store, posts)
      ELSE IF Detailed(d) /\ ~answer.ok THEN
        \* throw new Error(`OAuth response: ${status} - ${errText}`)
        out(500, {"errorMessage", "remoteBody"}, store, posts)
      ELSE IF ~answer.json THEN
        \* tokenResponse.json() rejects
        out(500, IF Detailed(d) THEN {"errorMessage"} ELSE {}, store, posts)
      ELSE IF Truthy(answer.access_token) THEN
        IF d = "serverB"
          THEN LET set == KvSet(store, up, shop, answer.access_token)
               IN  IF set.threw
                     THEN out(500, {"errorMessage"}, set.store,
                              posts \o <<Call("kv.set", shop, answer.access_token)>>)
                     ELSE out(200, {"shop"}, set.store,
                              posts \o <<Call("kv.set", shop, answer.access_token)>>)
          ELSE out(200, IF d = "part000" THEN {"shop", "credential"} ELSE {"credential"},
                   store, posts)
      ELSE
        \* 'Failed to get token: ' + JSON.stringify(data)
        out(500, IF Detailed(d) THEN {"remoteBody"} ELSE {}, store, posts)

StoreInit ==
  /\ kv = EmptyStore
  /\ accessToken \in {Undefined, EnvToken}
  /\ handled = NoHandled

\* GET /auth/callback?shop&code (src/server.js 375-413, part_000 176-230,
\* part_001 194-224)
OAuthCallback ==
  /\ \E shop \in Shops \cup {NoShop}, code \in BOOLEAN, answer \in TokenAnswers,
        up \in BOOLEAN :
       IF shop = NoShop \/ ~code
         THEN /\ handled' = [NoHandled EXCEPT !.route = "/auth/callback", !.shop = shop,
                               !.code = code, !.status = 400, !.before = kv]
              /\ kv' = kv
         ELSE LET out == Exchange(draft, apiSecret, kv, shop, answer, up)
                  stored == \E i \in DOMAIN out.calls : out.calls[i].op = "kv.set"
              IN  /\ kv' = out.store
                  /\ handled' = [NoHandled EXCEPT !.route = "/auth/callback",
                                   !.shop = shop, !.code = code,
                                   !.answer = IF out.calls = NoCalls THEN NoAnswer
                                                                     ELSE answer,
                                   !.ups = IF stored THEN <<up>> ELSE <<>>,
                                   !.status = out.status, !.parts = out.parts,
                                   !.error = IF out.status = 500 THEN "OAuth failed" ELSE "",
                                   !.calls = out.calls, !.before = kv]
  /\ UNCHANGED <<accessToken, cmp, rawNode, normalized, sorting, walks>>
  /\ UNCHANGED fetchVars
  /\ UNCHANGED verifyVars

\* GET /health (src/server.js 199-218: the store probe; part_001 55-63: none)
Health ==
  /\ \E now \in Clock, upSet \in BOOLEAN, upGet \in BOOLEAN, upDel \in BOOLEAN :
       LET testKey == healthTestKey(now)
           set     == KvSet(kv, upSet, testKey, "working")
           testGet == KvGet(set.store, upGet, testKey)
           del     == KvDel(set.store, upDel, testKey)
           probe   == Call("kv.set", testKey, "working")
       IN  IF draft # "serverB"
             THEN /\ handled' = [NoHandled EXCEPT !.route = "/health", !.status = 200,
                                   !.parts = {"shop"}, !.before = kv]
                  /\ kv' = kv
           ELSE IF set.threw
             THEN /\ handled' = [NoHandled EXCEPT !.route = "/health", !.status = 200,
                                   !.ups = <<upSet>>, !.calls = <<probe>>,
                                   !.parts = {"shop", "errorMessage"}, !.before = kv]
                  /\ kv' = kv
           ELSE IF testGet.threw
             THEN /\ handled' = [NoHandled EXCEPT !.route = "/health", !.status = 200,
                                   !.ups = <<upSet, upGet>>,
                                   !.calls = <<probe, Call("kv.get", testKey, Undefined)>>,
                                   !.parts = {"shop", "errorMessage"}, !.before = kv]
                  /\ kv' = set.store
           ELSE /\ handled' = [NoHandled EXCEPT !.route = "/health", !.status = 200,
                                 !.ups = <<upSet, upGet, upDel>>,
                                 !.calls = <<probe, Call("kv.get", testKey, Undefined),
                                             Call("kv.del", testKey, Undefined)>>,
                                 !.parts = IF del.threw THEN {"shop", "errorMessage"}
                                                        ELSE {"shop"},
                                 !.kvWorking = ~del.threw /\ testGet.value = "working",
                                 !.before = kv]
                /\ kv' = del.store
  /\ UNCHANGED <<accessToken, cmp, rawNode, normalized, sorting, walks>>
  /\ UNCHANGED fetchVars
  /\ UNCHANGED verifyVars

\* the page requests of a walk of n pages for shop with the credential token
WalkCalls(shop, token, n) == [i \in 1..n |-> Call("graphql", shop, token)]

\* a data request past its middleware: /coas and /api/coas of src/server.js
\* 430-464 call fetchAllCOAs(shopDomain, SHOPIFY_ACCESS_TOKEN); part_000
\* 233-256 call fetchAllCOAs() and part_001 227-248 fetchAllCOAs(first, after),
\* which send SHOPIFY_ACCESS_TOKEN.
\* The walk makes n page requests, the last of which ends as `outcome` says.
DataRequest ==
  /\ \E route \in {"/coas", "/api/coas"}, shop \in Shops \cup {NoShop},
        n \in 1..MaxPages, outcome \in {"ok"} \cup Failures :
       LET base == [NoHandled EXCEPT !.route = route, !.shop = shop, !.before = kv]
           fail(e, parts, calls) ==
             [base EXCEPT !.status = 500, !.error = e, !.calls = calls,
                          !.parts = IF Detailed(draft) THEN parts ELSE {}]
           calls == WalkCalls(shop, accessToken, n)
       IN  handled' =
             IF Detailed(draft) /\ ~Truthy(accessToken)
               THEN fail("SHOPIFY_ACCESS_TOKEN not set", {"errorMessage"}, NoCalls)
             ELSE IF draft = "serverB" /\ shop = NoShop
               THEN fail("SHOPIFY_SHOP domain not provided", {"errorMessage"}, NoCalls)
             ELSE CASE outcome = "ok"     -> [base EXCEPT !.status = 200, !.calls = calls]
                    [] outcome = "http"   -> fail("Http", {"errorMessage", "remoteBody"}, calls)
                    [] outcome = "errors" -> fail("GraphQL", {"errorMessage", "remoteMessage"}, calls)
                    [] outcome = "throw"  -> fail("Transport", {"errorMessage"}, calls)
  /\ UNCHANGED <<kv, accessToken, cmp, rawNode, normalized, sorting, walks>>
  /\ UNCHANGED fetchVars
  /\ UNCHANGED verifyVars

WebhookRoutes == {"/webhooks/app/uninstalled", "/webhooks/app/scopes_updated"}

\* WebhookEffect, were the uninstalled shop's credential purged
WebhookPurges(store, shop) == [store EXCEPT ![shop] = Null]

\* what a webhook handler does to the store: nothing, the body is logged
WebhookEffect(store, shop) == store

\* POST /webhooks/app/uninstalled, /webhooks/app/scopes_updated past
\* verifyWebhook (part_001 268-276): logged and acknowledged
Webhook ==
  /\ \E route \in WebhookRoutes, shop \in Shops :
       /\ handled' = [NoHandled EXCEPT !.route = route, !.shop = shop,
                        !.status = 200, !.calls = NoCalls, !.before = kv]
       /\ kv' = WebhookEffect(kv, shop)
  /\ UNCHANGED <<accessToken, cmp, rawNode, normalized, sorting, walks>>
  /\ UNCHANGED fetchVars
  /\ UNCHANGED verifyVars

\* a call of getTokenForShop(shop)
GetToken ==
  /\ \E shop \in Shops \cup {NoShop}, up \in BOOLEAN :
       handled' = [NoHandled EXCEPT !.route = "getTokenForShop", !.shop = shop,
                     !.ups = IF shop = NoShop THEN <<>> ELSE <<up>>,
                     !.calls = IF shop = NoShop THEN NoCalls
                               ELSE <<Call("kv.get", shop, Undefined)>>,
                     !.lookup = getTokenForShop(kv, up, shop), !.before = kv]
  /\ UNCHANGED <<kv, accessToken, cmp, rawNode, normalized, sorting, walks>>
  /\ UNCHANGED fetchVars
  /\ UNCHANGED verifyVars

StoreNext ==
  \/ OAuthCallback
  \/ Health
  \/ DataRequest
  \/ Webhook
  \/ GetToken

StoreIdle ==
  /\ kv = EmptyStore
  /\ accessToken = EnvToken
  /\ handled = NoHandled

----------------------------------------------------------------------------
(* The comparison of the received signature with the recomputed one, byte  *)
(* by byte.  crypto.timingSafeEqual examines every byte whatever it finds; *)
(* `!==` on two strings of one length stops at the first byte that differs.*)

\* bytes of a signature text in the comparison
SigLen == 3

ByteStrings == [1..SigLen -> {0, 1}]

\* the draft compares with `!==` (part_001 169 and 261, part_002 145), not
\* with crypto.timingSafeEqual (src/server.js 349-352)
ShortCircuits(d) == d # "serverB"

NoCompare == [a |-> <<>>, b |-> <<>>, examined |-> 0, differ |-> FALSE, done |-> FALSE]

CmpIdle == cmp = NoCompare

CompareInit ==
  /\ vdraft \in VerifyDrafts
  /\ cmp \in {[NoCompare EXCEPT !.a = a, !.b = b] : a \in ByteStrings, b \in ByteStrings}

\* the comparison examines its next byte
ExamineByte ==
  /\ ~cmp.done
  /\ cmp.examined < Len(cmp.a)
  /\ ~(ShortCircuits(vdraft) /\ cmp.differ)
  /\ cmp' = [cmp EXCEPT !.examined = cmp.examined + 1,
                        !.differ = cmp.differ
                                     \/ cmp.a[cmp.examined + 1] # cmp.b[cmp.examined + 1]]
  /\ UNCHANGED <<apiSecret, vdraft, vreq, vpc, vstatus, rawNode, normalized,
                 sorting, walks>>
  /\ UNCHANGED fetchVars
  /\ UNCHANGED storeVars

\* the comparison returns
CompareEnds ==
  /\ ~cmp.done
  /\ cmp.examined = Len(cmp.a) \/ (ShortCircuits(vdraft) /\ cmp.differ)
  /\ cmp' = [cmp EXCEPT !.done = TRUE]
  /\ UNCHANGED <<apiSecret, vdraft, vreq, vpc, vstatus, rawNode, normalized,
                 sorting, walks>>
  /\ UNCHANGED fetchVars
  /\ UNCHANGED storeVars

CompareNext ==
  \/ ExamineByte
  \/ CompareEnds

----------------------------------------------------------------------------
(* The final sort on its own: Array.prototype.sort with the date comparator *)
(* applied to an array of kept records.                                    *)

\* the array handed to the sort holds at most MaxSortLen records
MaxSortLen == 3

\* the `date` texts a kept record may carry: the field is free text of the
\* metaobject, and the filter asks only that it be non-empty
SortDates == {"2024-01-15", "2024-03-01", "2025-03-01", "not-a-date"}

\* the kept record at position i of allCOAs when the loop ends
SortRecord(d, i, date) ==
  Normalize(d, [id |-> i, date |-> date, product_name |-> "Tincture",
                batch_number |-> Null, pdf_link |-> Null, best_by_date |-> Null])

SortInputs(d) ==
  UNION { { [i \in 1..n |-> SortRecord(d, i, dates[i])] : dates \in [1..n -> SortDates] }
          : n \in 0..MaxSortLen }

NoSorting == [input |-> <<>>, output |-> <<>>, again |-> <<>>, stage |-> "none"]

SortIdle == sorting = NoSorting

SortInit ==
  /\ draft \in {d \in FetchDrafts : Sorts(d)}
  /\ sorting \in {[NoSorting EXCEPT !.input = in] : in \in SortInputs(draft)}

\* allCOAs.sort(...) at the end of fetchAllCOAs
SortOnce ==
  /\ sorting.stage = "none"
  /\ sorting' = [sorting EXCEPT !.output = SortByDateDesc(sorting.input),
                                !.stage = "once"]
  /\ UNCHANGED fetchVars
  /\ UNCHANGED verifyVars
  /\ UNCHANGED <<rawNode, normalized, kv, accessToken, handled, cmp, walks>>

\* the same sort applied to what it returned
SortAgain ==
  /\ sorting.stage = "once"
  /\ sorting' = [sorting EXCEPT !.again = SortByDateDesc(sorting.output),
                                !.stage = "twice"]
  /\ UNCHANGED fetchVars
  /\ UNCHANGED verifyVars
  /\ UNCHANGED <<rawNode, normalized, kv, accessToken, handled, cmp, walks>>

SortNext ==
  \/ SortOnce
  \/ SortAgain

----------------------------------------------------------------------------
(* Concurrent data requests.  Each call of fetchAllCOAs(shopDomain,        *)
(* accessToken) of src/server.js 235-317 has its own `allCOAs` and `after`.*)

\* data requests the server may be serving at one time
MaxRequests == 2

\* the tenant the concurrent data requests are for
Tenant == ShopDomain(1)

\* a request slot no data request has taken yet.  `stored` is the credential
\* the store held for the shop when the request came in, and `overlapped`
\* says that another request's page response arrived between two page
\* requests of this one
IdleWalk ==
  [pc |-> "idle", shop |-> NoShop, token |-> Undefined, stored |-> Null,
   after |-> NoCursor, allCOAs |-> <<>>, sent |-> <<>>, seen |-> <<>>,
   overlapped |-> FALSE, status |-> 0, coas |-> <<>>]

NoWalks == [r \in 1..MaxRequests |-> IdleWalk]

\* a remote of n full pages whose nodes are of kind k1 and k2 in turn
Listing(n, k1, k2) ==
  [i \in 1..n |-> [j \in 1..PageSize |-> NodeAt(i, j, IF j % 2 = 1 THEN k1 ELSE k2)]]

Listings(n) == {Listing(n, k1, k2) : k1 \in NodeKinds, k2 \in NodeKinds}

\* WalkAccumulator, were `allCOAs` one array of the module that every call
\* pushes to
SharedAccumulator(ws, r) == ws[1].allCOAs

\* `const allCOAs = []` inside fetchAllCOAs: the array of call r
WalkAccumulator(ws, r) == ws[r].allCOAs

\* the other requests that are between two of their page requests
MidWalk(ws, r) ==
  {q \in DOMAIN ws \ {r} : ws[q].pc = "fetch" /\ ws[q].sent # <<>>}

\* a data request for the tenant reaches its handler, which calls
\* fetchAllCOAs(shopDomain, SHOPIFY_ACCESS_TOKEN)
WalkInbound ==
  /\ \E r \in DOMAIN walks :
       /\ walks[r].pc = "idle"
       /\ walks' = [walks EXCEPT ![r] =
            IF ~Truthy(accessToken)
              THEN [@ EXCEPT !.pc = "failed", !.shop = Tenant, !.stored = kv[Tenant],
                             !.status = 500]
              ELSE [@ EXCEPT !.pc = "fetch", !.shop = Tenant, !.stored = kv[Tenant],
                             !.token = accessToken, !.after = NoCursor,
                             !.allCOAs = <<>>]]
  /\ UNCHANGED fetchVars
  /\ UNCHANGED verifyVars
  /\ UNCHANGED <<rawNode, normalized, kv, accessToken, handled, cmp, sorting>>

\* one iteration of the loop of request r whose page request succeeds, and
\* the handler's res.json(coas) when the loop ends
WalkPageOk ==
  /\ \E r \in DOMAIN walks :
       /\ walks[r].pc = "fetch"
       /\ \E edges \in Served(walks[r].after) :
            LET w    == walks[r]
                acc  == WalkAccumulator(walks, r) \o NormalizePage(draft, edges)
                next == NextAfter(draft, w.after, edges)
                mine == [w EXCEPT !.sent = Append(@, [after |-> w.after, token |-> w.token,
                                                      ok |-> TRUE]),
                                  !.seen = Append(@, edges),
                                  !.allCOAs = acc,
                                  !.after = next,
                                  !.pc = IF LoopEnds(next) THEN "done" ELSE "fetch",
                                  !.status = IF LoopEnds(next) THEN 200 ELSE 0,
                                  !.coas = IF LoopEnds(next) THEN acc ELSE <<>>]
            IN  walks' = [q \in DOMAIN walks |->
                            IF q = r THEN mine
                            ELSE IF q \in MidWalk(walks, r)
                              THEN [walks[q] EXCEPT !.overlapped = TRUE]
                              ELSE walks[q]]
  /\ UNCHANGED fetchVars
  /\ UNCHANGED verifyVars
  /\ UNCHANGED <<rawNode, normalized, kv, accessToken, handled, cmp, sorting>>

\* one page request of request r fails: the error leaves fetchAllCOAs and
\* the handler answers 500
WalkPageFails ==
  /\ \E r \in DOMAIN walks, outcome \in Failures :
       /\ walks[r].pc = "fetch"
       /\ walks' = [walks EXCEPT ![r] =
            [@ EXCEPT !.sent = Append(@, [after |-> walks[r].after,
                                          token |-> walks[r].token, ok |-> FALSE]),
                      !.pc = "failed", !.status = 500]]
  /\ UNCHANGED fetchVars
  /\ UNCHANGED verifyVars
  /\ UNCHANGED <<rawNode, normalized, kv, accessToken, handled, cmp, sorting>>

ConcurrentNext ==
  \/ WalkInbound
  \/ WalkPageOk
  \/ WalkPageFails

\* /auth/callback for the tenant with a code the token endpoint accepts: the
\* app is installed again and the tenant's credential overwritten
Reinstall ==
  /\ OAuthCallback
  /\ handled'.shop = Tenant
  /\ handled'.status = 200

\* data requests beside reinstalls of the app
ReinstallNext ==
  \/ WalkInbound
  \/ WalkPageOk
  \/ WalkPageFails
  \/ Reinstall

WalksIdle == walks = NoWalks

----------------------------------------------------------------------------
(* Specifications *)

VerifyIdle ==
  /\ apiSecret = Secret
  /\ vdraft = "serverB"
  /\ vreq = NoRequest
  /\ vpc = "idle"
  /\ vstatus = 0

FetchIdle ==
  /\ draft = "serverB"
  /\ nPages = 1
  /\ pages = <<>>
  /\ pc = "idle"
  /\ first = First
  /\ after = NoCursor
  /\ attempt = 0
  /\ allCOAs = <<>>
  /\ requests = <<>>
  /\ faults = NoPlan
  /\ err = ""
  /\ response = NoResponse

\* the paginated fetcher behind a data request
InitFetch ==
  /\ FetchInit
  /\ VerifyIdle
  /\ NormalizerIdle
  /\ StoreIdle
  /\ CmpIdle
  /\ SortIdle
  /\ WalksIdle

SpecFetch == InitFetch /\ [][FetchNext]_vars

\* the signature verifiers in front of the signed routes
InitVerify ==
  /\ VerifyInit
  /\ FetchIdle
  /\ NormalizerIdle
  /\ StoreIdle
  /\ CmpIdle
  /\ SortIdle
  /\ WalksIdle

SpecVerify == InitVerify /\ [][VerifyNext]_vars

NormalizerInit ==
  /\ FetchInit
  /\ nPages = 1
  /\ VerifyIdle
  /\ rawNode \in RawNodes
  /\ normalized = NotNormalized
  /\ StoreIdle
  /\ CmpIdle
  /\ SortIdle
  /\ WalksIdle

\* the Record Normalizer applied to every raw node
SpecNormalizer == NormalizerInit /\ [][NormalizerNext]_vars

\* the drafts whose /auth/callback and data routes the store specification runs
StoreDrafts == {"serverB", "part000", "part001"}

\* the Credential Store and the handlers around it
InitStore ==
  /\ StoreInit
  /\ draft \in StoreDrafts
  /\ ValidatesEnv(draft) => accessToken = EnvToken
  /\ nPages = 1
  /\ pages = <<>>
  /\ pc = "idle"
  /\ first = First
  /\ after = NoCursor
  /\ attempt = 0
  /\ allCOAs = <<>>
  /\ requests = <<>>
  /\ faults = NoPlan
  /\ err = ""
  /\ response = NoResponse
  /\ apiSecret \in {Secret, Undefined}
  \* of these handlers only part_000's callback tests the secret (186)
  /\ draft # "part000" => apiSecret = Secret
  /\ vdraft = "serverB"
  /\ vreq = NoRequest
  /\ vpc = "idle"
  /\ vstatus = 0
  /\ NormalizerIdle
  /\ CmpIdle
  /\ SortIdle
  /\ WalksIdle

SpecStore == InitStore /\ [][StoreNext]_vars

\* the final sort applied to every short array of kept records
InitSort ==
  /\ SortInit
  /\ nPages = 1
  /\ pages = <<>>
  /\ pc = "idle"
  /\ first = First
  /\ after = NoCursor
  /\ attempt = 0
  /\ allCOAs = <<>>
  /\ requests = <<>>
  /\ faults = NoPlan
  /\ err = ""
  /\ response = NoResponse
  /\ VerifyIdle
  /\ NormalizerIdle
  /\ StoreIdle
  /\ cmp = NoCompare
  /\ WalksIdle

SpecSort == InitSort /\ [][SortNext]_vars

\* concurrent data requests of src/server.js 430-464 for one tenant, against
\* a remote of full pages
InitConcurrent ==
  /\ draft = "serverB"
  /\ nPages \in 1..MaxPages
  /\ pages \in Listings(nPages)
  /\ pc = "idle"
  /\ first = First
  /\ after = NoCursor
  /\ attempt = 0
  /\ allCOAs = <<>>
  /\ requests = <<>>
  /\ faults = NoPlan
  /\ err = ""
  /\ response = NoResponse
  /\ VerifyIdle
  /\ NormalizerIdle
  /\ StoreIdle
  /\ CmpIdle
  /\ SortIdle
  /\ walks = NoWalks

SpecConcurrent == InitConcurrent /\ [][ConcurrentNext]_vars

\* data requests of src/server.js 430-464 for one tenant while the app is
\* installed again, against a remote of two pages
InitReinstall ==
  /\ draft = "serverB"
  /\ nPages = 2
  /\ pages \in {Listing(nPages, k, k) : k \in NodeKinds}
  /\ pc = "idle"
  /\ first = First
  /\ after = NoCursor
  /\ attempt = 0
  /\ allCOAs = <<>>
  /\ requests = <<>>
  /\ faults = NoPlan
  /\ err = ""
  /\ response = NoResponse
  /\ VerifyIdle
  /\ NormalizerIdle
  /\ StoreInit
  /\ CmpIdle
  /\ SortIdle
  /\ walks = NoWalks

SpecReinstall == InitReinstall /\ [][ReinstallNext]_vars

\* the comparison at the end of signature verification
InitCompare ==
  /\ CompareInit
  /\ apiSecret = Secret
  /\ vreq = NoRequest
  /\ vpc = "idle"
  /\ vstatus = 0
  /\ FetchIdle
  /\ NormalizerIdle
  /\ StoreIdle
  /\ SortIdle
  /\ WalksIdle

SpecCompare == InitCompare /\ [][CompareNext]_vars

\* the drafts that put a signature check in front of their data route
ProxyDrafts == {"serverB", "part001", "part002"}

\* the handler of the signed route runs once its middleware called next()
HandlerInbound ==
  /\ vpc = "next"
  /\ Inbound

HandlerInboundNoToken ==
  /\ vpc = "next"
  /\ InboundNoToken

ProxyNext ==
  \/ ReceiveProxy
  \/ Verify
  \/ HandlerInbound
  \/ HandlerInboundNoToken
  \/ PageOk
  \/ PageFails
  \/ Backoff

InitProxy ==
  /\ VerifyInit
  /\ vdraft \in ProxyDrafts
  /\ draft = vdraft
  /\ nPages = 1
  /\ pages = <<>>
  /\ pc = "idle"
  /\ first = First
  /\ after = NoCursor
  /\ attempt = 0
  /\ allCOAs = <<>>
  /\ requests = <<>>
  /\ faults = NoPlan
  /\ err = ""
  /\ response = NoResponse
  /\ NormalizerIdle
  /\ StoreIdle
  /\ CmpIdle
  /\ SortIdle
  /\ WalksIdle

\* the signed proxy path end to end: middleware, then handler and fetcher
SpecProxy == InitProxy /\ [][ProxyNext]_vars

----------------------------------------------------------------------------
(* Properties of the signature verifiers *)

Verified == vpc \in {"next", "rejected", "handled"}

HandlerReached == vpc \in {"next", "handled"}

\* the string the query-signature scheme signs, as section 4.1 states it:
\* all parameters but `signature`, names in lexicographic order, each as
\* key=value, nothing between pairs, the values of a repeated name joined by ','
SignedString(q) ==
  LET names == SortStrings({q[i].key : i \in DOMAIN q})
      text(k) == LET v == q[CHOOSE i \in DOMAIN q : q[i].key = k].value
                 IN  Join(v.items, <<",">>)
  IN  Concat([n \in 1..Len(names) |-> names[n] \o <<"=">> \o text(names[n])])

ExpectedSignature(q) == Hmac("hex", Secret, SignedString(q))

\* C8: query-signature verification accepts a request iff its `signature`
\* is the hex HMAC, under the shared secret, of the signed string of its
\* parameters; an accepted request with one character of one parameter
\* value changed is rejected.
C8_AcceptsIffSignatureMatches ==
  (vreq.kind = "proxy" /\ Verified /\ apiSecret = Secret) =>
     /\ HandlerReached <=> (vreq.signature = ExpectedSignature(vreq.query))
     /\ HandlerReached =>
          \A q \in MutatedQueries(vreq.query) :
            ~Middleware(vdraft, [vreq EXCEPT !.query = q], apiSecret).next

\* C8 as it holds of verifyAppProxy of src/server.js 320-361
C8_ServerB ==
  vdraft = "serverB" => C8_AcceptsIffSignatureMatches

\* the length of the signature the draft computes: base64 in part001, hex elsewhere
RecomputedLength(d) == IF d = "part001" THEN 44 ELSE 64

\* C9: a `signature` whose length differs from the recomputed one is
\* rejected with 401 like any other mismatch: no exception, no other
\* outcome, and the handler does not run.
C9_LengthMismatchIs401 ==
  (/\ vreq.kind = "proxy" /\ Verified /\ apiSecret = Secret
   /\ vreq.signature # NoSig
   /\ vreq.signature.len # RecomputedLength(vdraft)) =>
     /\ vpc = "rejected"
     /\ vstatus = 401

\* C9 as it holds of the drafts that compare with !==
C9_StringCompareDrafts ==
  vdraft \in {"part001", "part002"} => C9_LengthMismatchIs401

\* C10: a webhook whose signature header is missing, or differs from the
\* base64 HMAC-SHA256 of the received body under the shared secret, is
\* rejected with 401 and its handler never runs.
C10_WebhookHeaderMustMatchBody ==
  (/\ vreq.kind = "webhook" /\ Verified /\ apiSecret = Secret
   /\ ParseJson(vreq.body).ok
   /\ vreq.header # Hmac("base64", Secret, vreq.body)) =>
     /\ vpc = "rejected"
     /\ vstatus = 401

\* C10 as it holds of verifyWebhook: the header is compared with the HMAC
\* of the re-serialised body, JSON.stringify(req.body)
C10_HeaderMatchesReserialisedBody ==
  (/\ vreq.kind = "webhook" /\ Verified /\ apiSecret = Secret
   /\ ParseJson(vreq.body).ok
   /\ vreq.header #
        Hmac("base64", Secret, JsonStringify(ParseJson(vreq.body).members))) =>
     /\ vpc = "rejected"
     /\ vstatus = 401

----------------------------------------------------------------------------
(* Properties of the Record Normalizer *)

OptionalFields == {"batch_number", "pdf_link", "best_by_date"}

\* the drafts whose normalizer is the one of src/server.js 295-308
FullNormalizerDrafts == {"serverA", "serverB", "part001"}

\* C7: a raw node with non-empty date and product_name is kept whether or
\* not batch_number, pdf_link and best_by_date are present: it yields exactly
\* one record, with the node's id, date and product, every optional field
\* that is present carried over and every missing one undefined.
C7_ValidNodeKept ==
  (/\ draft \in FullNormalizerDrafts
   /\ normalized.done
   /\ Truthy(rawNode.date) /\ Truthy(rawNode.product_name)) =>
     /\ Len(normalized.coas) = 1
     /\ LET coa == normalized.coas[1]
        IN  /\ coa.id = rawNode.id
            /\ coa.date = rawNode.date
            /\ coa.product = rawNode.product_name
            /\ \A f \in OptionalFields :
                 coa[f] = IF rawNode[f] = Null THEN Undefined ELSE rawNode[f]

\* a valid node without any optional field has been normalised
C7_Witness ==
  /\ draft \in FullNormalizerDrafts
  /\ normalized.done
  /\ Truthy(rawNode.date) /\ Truthy(rawNode.product_name)
  /\ \A f \in OptionalFields : rawNode[f] = Null
  /\ Len(normalized.coas) = 1

----------------------------------------------------------------------------
(* Properties of verification when the signing secret is unset *)

\* C11: with the signing secret unset, every signed request (proxy or
\* webhook), whatever signature it carries, is rejected with 401 and its
\* handler never runs; verification ends in no other failure.
C11_UnsetSecretIs401 ==
  (/\ apiSecret = Undefined
   /\ Verified
   /\ vreq.kind = "webhook" => ParseJson(vreq.body).ok) =>
     /\ vpc = "rejected"
     /\ vstatus = 401

\* C11 as it holds of every verifier: with the secret unset no request
\* reaches its handler
C11_UnsetSecretNeverPasses ==
  (apiSecret = Undefined /\ Verified) => vpc = "rejected"

----------------------------------------------------------------------------
(* Properties of the signature comparison *)

\* C12: the comparison examines every byte of the two signatures before it
\* returns, wherever the first byte that differs stands: the work done does
\* not depend on the position of the first mismatch.
C12_EveryByteExamined ==
  cmp.done => cmp.examined = Len(cmp.a)

\* C12 as it holds of crypto.timingSafeEqual in verifyAppProxy of src/server.js
C12_TimingSafeEqual ==
  vdraft = "serverB" => C12_EveryByteExamined

----------------------------------------------------------------------------
(* Properties of the Credential Store and OAuth Exchange *)

\* the callback got a token from the token endpoint with HTTP success
ExchangedOk ==
  /\ handled.route = "/auth/callback"
  /\ handled.shop \in Shops /\ handled.code
  /\ ~handled.answer.threw /\ handled.answer.ok /\ handled.answer.json
  /\ Truthy(handled.answer.access_token)

\* C13: after an OAuth Exchange for shop S in which the token endpoint
\* answered HTTP success with access token T and the store took the write,
\* getTokenForShop(S) returns T, whatever was stored for S before, and
\* every other key of the store holds what it held before.
C13_ExchangeStoresCredential ==
  (draft = "serverB" /\ ExchangedOk /\ handled.ups = <<TRUE>>) =>
     /\ handled.status = 200
     /\ kv[handled.shop] = handled.answer.access_token
     /\ getTokenForShop(kv, TRUE, handled.shop) = Returned(handled.answer.access_token)
     /\ \A k \in StoreKeys \ {handled.shop} : kv[k] = handled.before[k]

\* a reinstall: S held another credential, and another shop holds one
C13_Witness ==
  /\ draft = "serverB" /\ ExchangedOk /\ handled.ups = <<TRUE>>
  /\ Truthy(handled.before[handled.shop])
  /\ handled.before[handled.shop] # handled.answer.access_token
  /\ \E k \in Shops \ {handled.shop} : Truthy(kv[k])
  /\ kv[handled.shop] = handled.answer.access_token

\* C14: when the token endpoint answers with a non-success status, or with
\* success but no access_token field, the callback answers 500 and the store
\* is exactly as it was before the call.
C14_FailedExchangeLeavesStore ==
  (/\ handled.route = "/auth/callback"
   /\ handled.shop \in Shops /\ handled.code
   /\ ~handled.answer.threw
   /\ ~handled.answer.ok \/ ~Truthy(handled.answer.access_token)) =>
     /\ handled.status = 500
     /\ kv = handled.before

\* C14 as it holds of /auth/callback of src/server.js 375-413, which tests
\* tokenResponse.ok
C14_ServerB ==
  draft = "serverB" => C14_FailedExchangeLeavesStore

GraphqlCalls == SelectSeq(handled.calls, LAMBDA c : c.op = "graphql")

\* C15: a walk for tenant S sends, with every page request, the credential
\* the store holds under key S; when the store holds none for S the request
\* fails without any page request.
C15_WalkUsesStoredCredential ==
  (handled.route \in {"/coas", "/api/coas"} /\ handled.shop \in Shops) =>
     /\ \A i \in DOMAIN GraphqlCalls :
          GraphqlCalls[i].token = handled.before[handled.shop]
     /\ ~Truthy(handled.before[handled.shop]) =>
          /\ GraphqlCalls = <<>>
          /\ handled.status = 500

\* C16: getTokenForShop on a shop without a stored credential and
\* getTokenForShop when the store cannot be reached both fail, and never
\* with the same failure value.
C16_NotFoundDiffersFromStoreFailure ==
  (handled.route = "getTokenForShop" /\ handled.shop \in Shops) =>
     /\ (handled.ups = <<TRUE>> /\ ~Truthy(handled.before[handled.shop])) =>
          /\ handled.lookup = Thrown(NoTokenMessage)
          /\ \A store \in [StoreKeys -> Tokens \cup {Null}] :
               getTokenForShop(store, FALSE, handled.shop) # handled.lookup
     /\ handled.ups = <<FALSE>> =>
          /\ handled.lookup.threw
          /\ handled.lookup # Thrown(NoTokenMessage)
          /\ handled.lookup #
               getTokenForShop([handled.before EXCEPT ![handled.shop] = Null],
                               TRUE, handled.shop)

\* the store could not be reached for a shop that holds a credential, after
\* another shop was looked up that never installed
C16_Witness ==
  /\ handled.route = "getTokenForShop" /\ handled.shop \in Shops
  /\ handled.ups = <<FALSE>>
  /\ handled.lookup = Thrown(StoreError)
  /\ \E k \in Shops : ~Truthy(kv[k])

----------------------------------------------------------------------------
(* Properties of the response to a data request *)

RECURSIVE SortedDesc(_)
\* every record is dated no earlier than the records after it
SortedDesc(s) ==
  \/ Len(s) < 2
  \/ /\ ~ParseDate(s[1].date).nan /\ ~ParseDate(s[2].date).nan
     /\ ParseDate(s[1].date).t >= ParseDate(s[2].date).t
     /\ SortedDesc(Tail(s))

\* C17: the array answered to a data request is in descending order of date
\* and holds every kept record of every page exactly once, in whatever
\* order the remote delivered them.
C17_ResponseSortedByDateDesc ==
  (pc = "done" /\ response.status = 200) =>
     /\ SortedDesc(response.coas)
     /\ DOMAIN pages = 1..nPages
     /\ SameRecords(response.coas, KeptFrom(1))

\* C17 as it holds of the drafts that sort before they return
C17_SortingDrafts ==
  Sorts(draft) => C17_ResponseSortedByDateDesc

----------------------------------------------------------------------------
(* Properties of the signed proxy path *)

\* C18: on the signed proxy path nothing of the handler runs, and no page
\* request is made, before the middleware accepted the request; a request
\* whose signature is missing or is not the expected one is answered 401
\* and causes no page request.
C18_NoRemoteCallBeforeVerified ==
  /\ (pc # "idle" \/ requests # <<>>) =>
       /\ vpc = "next"
       /\ Middleware(vdraft, vreq, apiSecret).next
  /\ (/\ vreq.kind = "proxy" /\ Verified /\ apiSecret = Secret
      /\ vreq.signature # ExpectedSignature(vreq.query)) =>
       /\ vpc = "rejected"
       /\ vstatus = 401
       /\ requests = <<>>

\* C18 as it holds of every draft: the handler and its page requests come
\* after the middleware called next()
C18_HandlerAfterNext ==
  (pc # "idle" \/ requests # <<>>) =>
     /\ vpc = "next"
     /\ Middleware(vdraft, vreq, apiSecret).next

----------------------------------------------------------------------------
(* Properties of response bodies and of the store's frame *)

\* what no response body may hold
SecretParts == {"clientSecret", "credential", "remoteBody", "stack"}

\* C19: no response body holds the client secret, a credential, the raw
\* body the remote platform returned, or a stack trace.
C19_NoSecretInResponseBody ==
  handled.parts \cap SecretParts = {}

\* C20: the value stored under a shop's key changes only by a successful
\* OAuth Exchange for that shop, which stores the token it obtained; data
\* requests, getTokenForShop, webhooks and the health probe leave every
\* shop's key as it was.
C20_OnlyExchangeWritesCredential ==
  \A s \in Shops :
    kv[s] # handled.before[s] =>
      /\ ExchangedOk
      /\ handled.shop = s
      /\ handled.status = 200
      /\ kv[s] = handled.answer.access_token

\* the health probe ran to its end on a store that holds a credential
C20_Witness ==
  /\ handled.route = "/health"
  /\ handled.ups = <<TRUE, TRUE, TRUE>>
  /\ \E s \in Shops : Truthy(kv[s])
  /\ \A s \in Shops : kv[s] = handled.before[s]

----------------------------------------------------------------------------
(* Properties of the walk's loop condition and of its first cursor *)

\* the pageInfo the remote sent with the i-th page request's answer
InfoOf(i) ==
  LET c == requests[i].after
  IN  PageInfo(c, IF c + 1 \in DOMAIN pages THEN pages[c + 1] ELSE <<>>)

\* C21: the walk continues exactly while the remote's response indicates a
\* next page: every page response with hasNextPage = true is followed by one
\* further page request that carries that response's endCursor, and a walk
\* none of whose page requests failed ends only on a response with
\* hasNextPage = false.
C21_ContinuesWhileHasNextPage ==
  /\ \A i \in DOMAIN requests :
       (requests[i].outcome = "ok" /\ InfoOf(i).hasNextPage) =>
         IF i < Len(requests)
           THEN requests[i + 1].after = InfoOf(i).endCursor
           ELSE pc = "fetch" /\ after = InfoOf(i).endCursor
  /\ (Terminal /\ err # "NoToken" /\ AllOk) =>
       /\ requests # <<>>
       /\ ~InfoOf(Len(requests)).hasNextPage

\* C21 as it holds of the drafts whose loop follows pageInfo.hasNextPage
C21_HasNextPageDrafts ==
  draft \in {"serverA", "serverB", "part002"} => C21_ContinuesWhileHasNextPage

\* C23: pagination restarts for each inbound call: the first page request of
\* an inbound data request carries no cursor, whatever the caller sent, and
\* every later one carries the cursor of the response before it.
C23_FirstRequestCarriesNoCursor ==
  /\ requests # <<>> => requests[1].after = NoCursor
  /\ \A i \in DOMAIN requests :
       i > 1 => requests[i].after \in {requests[i - 1].after, requests[i - 1].after + 1}

\* C23 as it holds of the drafts that take no cursor from the caller
C23_WalkDrafts ==
  draft \in WalkDrafts => C23_FirstRequestCarriesNoCursor

----------------------------------------------------------------------------
(* Properties of the OAuth callback and of the webhook handlers *)

TokenPostsOf == SelectSeq(handled.calls, LAMBDA c : c.op = "oauth/access_token")

\* C22: one /auth/callback request sends at most one POST to the token
\* endpoint, whatever the outcome; a transport exception, a body that is not
\* JSON and a body without access_token are answered 500 after that one
\* POST, and a success is answered after exactly one POST.
C22_ExchangeSingleShot ==
  handled.route = "/auth/callback" =>
     /\ Len(TokenPostsOf) <= 1
     /\ handled.status \in {200, 400, 500}
     /\ handled.status = 200 => Len(TokenPostsOf) = 1
     /\ (/\ Len(TokenPostsOf) = 1
         /\ \/ handled.answer.threw
            \/ ~handled.answer.json
            \/ ~Truthy(handled.answer.access_token)) => handled.status = 500

\* the POST met a transport exception and the callback answered 500
C22_Witness ==
  /\ handled.route = "/auth/callback"
  /\ draft \in {"serverB", "part000"}
  /\ handled.answer.threw
  /\ Len(TokenPostsOf) = 1
  /\ handled.status = 500

\* C25: a verified app/uninstalled or app/scopes_updated webhook is answered
\* 200, makes no remote call and no store call, and leaves the store as it
\* was: getTokenForShop returns for every shop what it returned before.
C25_WebhookAcknowledgeOnly ==
  handled.route \in WebhookRoutes =>
     /\ handled.status = 200
     /\ handled.calls = NoCalls
     /\ kv = handled.before
     /\ \A s \in Shops :
          getTokenForShop(kv, TRUE, s) = getTokenForShop(handled.before, TRUE, s)

\* an app/uninstalled webhook for a shop that holds a credential, which the
\* store still returns
C25_Witness ==
  /\ handled.route = "/webhooks/app/uninstalled"
  /\ handled.status = 200
  /\ Truthy(handled.before[handled.shop])
  /\ getTokenForShop(kv, TRUE, handled.shop) = Returned(handled.before[handled.shop])

----------------------------------------------------------------------------
(* Properties of the health probe *)

\* C30: after a /health request, whichever of the probe's store calls
\* failed, no throwaway key is left in the store, and kvWorking is true only
\* when the value read back is the value written.
C30_ProbeLeavesNoTrace ==
  handled.route = "/health" =>
     /\ \A now \in Clock : kv[healthTestKey(now)] = Null
     /\ handled.kvWorking => /\ Len(handled.ups) >= 2
                              /\ handled.ups[1] /\ handled.ups[2]

\* C30 as it holds of a probe whose read and delete were both attempted and
\* the delete succeeded, and the report of kvWorking in every case
C30_CompletedProbe ==
  handled.route = "/health" =>
     /\ (Len(handled.ups) = 3 /\ handled.ups[3]) =>
          \A now \in Clock : kv[healthTestKey(now)] = Null
     /\ handled.kvWorking = (handled.ups = <<TRUE, TRUE, TRUE>>)

----------------------------------------------------------------------------
(* Properties of the configuration at startup *)

\* C26: a server whose credential or API client secret is unset fails at
\* startup: it never accepts a request.
C26_MissingConfigFailsAtStartup ==
  (~Truthy(accessToken) \/ ~Truthy(apiSecret)) => handled = NoHandled

----------------------------------------------------------------------------
(* Properties of the final sort *)

Parses(coa) == ~ParseDate(coa.date).nan

\* C27: the output of the sort is a permutation of its input, and the sort
\* applied to its own output returns that output.
C27_SortIsIdempotentPermutation ==
  /\ sorting.stage \in {"once", "twice"} => SameRecords(sorting.output, sorting.input)
  /\ sorting.stage = "twice" => sorting.again = sorting.output

\* three records, one of them with a date that does not parse, which the sort
\* reorders; the sort has run twice
C27_Witness ==
  /\ sorting.stage = "twice"
  /\ Len(sorting.input) = 3
  /\ \E i \in DOMAIN sorting.input : ~Parses(sorting.input[i])
  /\ sorting.output # sorting.input
  /\ sorting.again = sorting.output

\* C28: in the sorted array every record whose date does not parse comes
\* after every record whose date parses.
C28_UnparsableDatesLast ==
  sorting.stage \in {"once", "twice"} =>
    \A i, j \in DOMAIN sorting.output :
      (i < j /\ Parses(sorting.output[j])) => Parses(sorting.output[i])

----------------------------------------------------------------------------
(* Properties of concurrent data requests *)

RECURSIVE KeptOf(_)
\* the kept records of the pages a walk received, in the order it received them
KeptOf(seen) ==
  IF seen = <<>> THEN <<>>
  ELSE NormalizePage(draft, Head(seen)) \o KeptOf(Tail(seen))

\* C24: under every interleaving of the page requests of concurrent data
\* requests for one tenant, each request walks from the first page with its
\* own cursor, holds at every moment exactly the kept records of the pages
\* it received itself, and answers with the kept records of all N pages.
C24_ConcurrentWalksIndependent ==
  \A r \in DOMAIN walks :
    LET w == walks[r]
    IN  /\ \A i \in DOMAIN w.sent : w.sent[i].after = i - 1
        /\ \A i \in DOMAIN w.seen : w.seen[i] = pages[i]
        /\ w.allCOAs = KeptOf(w.seen)
        /\ w.pc = "done" =>
             /\ w.status = 200
             /\ Len(w.seen) = nPages
             /\ w.coas = KeptFrom(1)

\* two requests whose page requests alternated both answered, with records
C24_Witness ==
  /\ nPages >= 2
  /\ \E r, q \in DOMAIN walks :
       /\ r # q
       /\ walks[r].pc = "done" /\ walks[q].pc = "done"
       /\ walks[r].overlapped /\ walks[q].overlapped
       /\ walks[r].coas # <<>>

\* C29: every page request of a walk carries the credential the walk started
\* with, whatever an OAuth Exchange stores for the tenant meanwhile, and that
\* credential is the one the store held for the tenant when the walk
\* started: a walk started after an overwrite carries the new credential.
C29_WalkCarriesOneStoredCredential ==
  \A r \in DOMAIN walks :
    LET w == walks[r]
    IN  /\ \A i \in DOMAIN w.sent : w.sent[i].token = w.token
        /\ (w.sent # <<>> /\ Truthy(w.stored)) => w.sent[1].token = w.stored

\* C29 as it holds of fetchAllCOAs(shopDomain, accessToken): the credential
\* is an argument of the call, so one walk sends one credential, also when
\* the stored one changes between two of its page requests
C29_OneCredentialPerWalk ==
  \A r \in DOMAIN walks :
    \A i \in DOMAIN walks[r].sent : walks[r].sent[i].token = walks[r].token

====
